---- MODULE Spec2Model ----
(***************************************************************************)
(* Model of src/src/main.rs: the card-passing game (Card, Deck, Hand,      *)
(* Game::step, RandomStrategy, RoundResult::describe).                     *)
(*                                                                         *)
(* Rust values are encoded as follows.                                     *)
(*   Option<T>      None is <<>>, Some(x) is <<x>>                         *)
(*   Card           a record [kind, suit, num]; Joker(i) has suit "-",     *)
(*                  Special(s) has num 0                                   *)
(*   HandSum        Win(c) is <<"Win", c>>, NoWin(n) is <<"NoWin", n>>     *)
(*   Vec<T>         a sequence; push appends, pop removes the last element *)
(*   panic!/assert! the variable panic leaves "none"; the program stops    *)
(* A random source (Rng::shuffle, Rng::choose) is a nondeterministic       *)
(* choice over every outcome it can produce.                               *)
(***************************************************************************)
EXTENDS Integers, Sequences, FiniteSets, TLC

\* ---------------------------------------------------------------- bounds
\* Game::new(players, jokers) is explored for players in 1..MaxPlayers.
MaxPlayers == 3
\* ... and jokers in 0..MaxJokers.
MaxJokers == 1
\* step is not called once the round counter has reached MaxRound.
MaxRound == 6
\* A hand constructed outside of a game holds at most MaxHand cards.
MaxHand == 5
\* The (suit, num) pairs Deck::new deals in Spec: the full deck of 52 is cut
\* down to both Special cards and ordinary cards of both colours.
Dealt ==
    { <<"Spades", 11>>, <<"Diamonds", 12>>, <<"Hearts", 12>>,
      <<"Hearts", 13>>, <<"Clubs", 13>> }

\* The low cards a directly constructed game (SpecG) takes its deck from.
PoolPairs ==
    { <<"Spades", 1>>, <<"Hearts", 1>>, <<"Hearts", 2>>, <<"Clubs", 3>>,
      <<"Clubs", 11>> }

\* ------------------------------------------------------------ Option<T>
None == <<>>
Some(x) == <<x>>

\* -------------------------------------------------------------- Suit/Card
Suits == <<"Spades", "Hearts", "Clubs", "Diamonds">>

is_red(suit) == suit = "Hearts" \/ suit = "Diamonds"

Regular(suit, num) == [kind |-> "Regular", suit |-> suit, num |-> num]
Joker(i) == [kind |-> "Joker", suit |-> "-", num |-> i]
Special(suit) == [kind |-> "Special", suit |-> suit, num |-> 0]

\* Card::new; the caller keeps 1 <= num < 14.
CardNew(suit, num) ==
    IF num = 12 /\ suit = "Diamonds" THEN Special(suit)
    ELSE IF num = 11 /\ suit = "Spades" THEN Special(suit)
    ELSE Regular(suit, num)

\* ------------------------------------------------------------------ Deck
RECURSIVE SeqOfPairs(_, _, _, _)
\* The loops of Deck::new over suits (outer) and 1..14 (inner), restricted
\* to the pairs in `pairs`.
SeqOfPairs(pairs, s, num, acc) ==
    IF s > Len(Suits) THEN acc
    ELSE IF num >= 14 THEN SeqOfPairs(pairs, s + 1, 1, acc)
    ELSE SeqOfPairs(pairs, s, num + 1,
                    IF <<Suits[s], num>> \in pairs
                    THEN Append(acc, CardNew(Suits[s], num))
                    ELSE acc)

JokerSeq(jokers) == [i \in 1..jokers |-> Joker(i - 1)]

DeckNew(pairs, jokers) == SeqOfPairs(pairs, 1, 1, <<>>) \o JokerSeq(jokers)

Range(s) == {s[i] : i \in 1..Len(s)}

RECURSIVE Perms(_)
\* Every arrangement of the set of cards S.
Perms(S) ==
    IF S = {} THEN {<<>>}
    ELSE UNION {{<<x>> \o p : p \in Perms(S \ {x})} : x \in S}

\* Deck::shuffle: every permutation is a possible outcome.
ShuffleOutcomes(cards) == Perms(Range(cards))

\* ------------------------------------------------------------------ Hand
Win(cond) == <<"Win", cond>>
NoWin(sum) == <<"NoWin", sum>>
IsWin(hs) == hs[1] = "Win"

RECURSIVE HandScan(_, _, _, _)
\* The loop of hand_sum with an empty arm for Jokers: a Joker counts nothing.
HandScanNoJoker(cards, i, sum, aces) ==
    IF i > Len(cards) THEN <<"scanned", sum, aces>>
    ELSE IF cards[i].kind = "Regular"
         THEN HandScan(cards, i + 1, sum + cards[i].num,
                       IF cards[i].num = 1 THEN aces + 1 ELSE aces)
    ELSE IF cards[i].kind = "Joker" THEN HandScan(cards, i + 1, sum, aces)
    ELSE <<"return", "Special", 0>>

\* The loop of Hand::hand_sum: returns at the first Joker or Special.
HandScan(cards, i, sum, aces) ==
    IF i > Len(cards) THEN <<"scanned", sum, aces>>
    ELSE IF cards[i].kind = "Regular"
         THEN HandScan(cards, i + 1, sum + cards[i].num,
                       IF cards[i].num = 1 THEN aces + 1 ELSE aces)
    ELSE IF cards[i].kind = "Joker" THEN <<"return", "Joker", 0>>
    ELSE <<"return", "Special", 0>>

\* hand_sum without the ace rule: a sum of 12 never wins.
hand_sum_no_ace(cards) ==
    LET r == HandScan(cards, 1, 0, 0) IN
    IF r[1] = "return" THEN Win(r[2])
    ELSE IF Len(cards) = 5 THEN Win("FiveCards")
    ELSE IF r[2] = 25 THEN Win("TwentyFive")
    ELSE NoWin(r[2])

\* hand_sum testing the sum before the number of cards.
hand_sum_sum_first(cards) ==
    LET r == HandScan(cards, 1, 0, 0) IN
    IF r[1] = "return" THEN Win(r[2])
    ELSE IF r[2] = 25 \/ (r[2] = 12 /\ r[3] >= 1) THEN Win("TwentyFive")
    ELSE IF Len(cards) = 5 THEN Win("FiveCards")
    ELSE NoWin(r[2])

\* Hand::hand_sum
hand_sum(cards) ==
    LET r == HandScan(cards, 1, 0, 0) IN
    IF r[1] = "return" THEN Win(r[2])
    ELSE IF Len(cards) = 5 THEN Win("FiveCards")
    ELSE IF r[2] = 25 \/ (r[2] = 12 /\ r[3] >= 1) THEN Win("TwentyFive")
    ELSE NoWin(r[2])

\* can_accept with a limit of 24 instead of 25.
can_accept_strict(cards, card) ==
    IF card.kind # "Regular" THEN "true"
    ELSE LET hs == hand_sum(cards) IN
         IF IsWin(hs) THEN "panic"
         ELSE IF hs[2] + card.num < 25 THEN "true" ELSE "false"

\* Hand::can_accept: "true", "false" or "panic".
can_accept(cards, card) ==
    IF card.kind # "Regular" THEN "true"
    ELSE LET hs == hand_sum(cards) IN
         IF IsWin(hs) THEN "panic"
         ELSE IF hs[2] + card.num <= 25 THEN "true" ELSE "false"

\* Hand::accept: the hand after the push; panic when the assertion fails or
\* can_accept itself panics.
accept(cards, card) ==
    IF can_accept(cards, card) = "true"
    THEN [panic |-> FALSE, cards |-> Append(cards, card)]
    ELSE [panic |-> TRUE, cards |-> cards]

\* HandSum::no_win: the sum; panic on a Win.
no_win(hs) ==
    IF IsWin(hs) THEN [panic |-> TRUE, sum |-> 0] ELSE [panic |-> FALSE, sum |-> hs[2]]

\* take that does not clear the hand.
take_keep(cards, hand) == [deck |-> cards \o hand, hand |-> hand]

\* Deck::take: the hand's cards are pushed in order; the hand is cleared.
take(cards, hand) == [deck |-> cards \o hand, hand |-> <<>>]

\* -------------------------------------------------------------- Strategy
\* The indices (0-based, ascending) RandomStrategy::choose collects in
\* tmp_players.
tmp_players(hands, card) ==
    SelectSeq([i \in 1..Len(hands) |-> i - 1],
              LAMBDA i : can_accept(hands[i + 1], card) = "true")

\* A strategy that picks among all players, eligible or not.
choose_any(hands, card) == {i - 1 : i \in 1..Len(hands)}

\* RandomStrategy::choose: rng.choose may return any element of tmp_players.
choose(hands, card) == Range(tmp_players(hands, card))

\* ------------------------------------------------------------------ Game
VARIABLES
    deck,       \* Game.deck.cards, top of the deck last
    discard,    \* Game.discard.cards
    players,    \* Game.players: one sequence of cards per hand
    round,      \* Game.round
    pc,         \* the last call made: "new", "shuffle", "step", "describe"
    result,     \* what the last call of step returned (Option<RoundResult>)
    chosen,     \* what Strategy::choose returned in the last call of step,
                \* None when step did not call it
    line,       \* what the last call of describe returned, None before
    panic,      \* "none", or the fatal check that stopped the program
    dealt,      \* the deck Game::new built (never changed afterwards)
    steps,      \* how many calls of step have returned a result
    h_cards,    \* Hand.cards of a hand constructed outside of any game
    h_ret       \* the last call made on that hand: <<method, card, returned>>

vars ==
    <<deck, discard, players, round, pc, result, chosen, line, panic, dealt, steps,
      h_cards, h_ret>>

\* The variables of the game, and those of the hand outside of it.
gvars ==
    <<deck, discard, players, round, pc, result, chosen, line, panic, dealt, steps>>

hvars == <<h_cards, h_ret>>

\* No hand is constructed outside of the game.
NoHand == h_cards = <<>> /\ h_ret = None

\* Game::new, with the deck Deck::new built
GameNew(nplayers, cards) ==
    /\ deck = cards
    /\ discard = <<>>
    /\ players = [i \in 1..nplayers |-> <<>>]
    /\ round = 0
    /\ dealt = cards
    /\ pc = "new"
    /\ result = None
    /\ chosen = None
    /\ line = None
    /\ panic = "none"
    /\ steps = 0

\* main: Game::new(players, jokers).
Init ==
    /\ NoHand
    /\ \E nplayers \in 1..MaxPlayers, jokers \in 0..MaxJokers :
          GameNew(nplayers, DeckNew(Dealt, jokers))

\* The deck of a game over the first n cards of the pool.
PoolDeck(n) == SubSeq(DeckNew(PoolPairs, 0), 1, n)

\* Every game of Init, and every game constructed with a pool deck: such a
\* deck holds neither a Special card nor a Joker.
InitG ==
    \/ Init
    \/ /\ NoHand
       /\ \E nplayers \in 1..MaxPlayers, n \in 0..Cardinality(PoolPairs) :
             GameNew(nplayers, PoolDeck(n))

\* Game::shuffle
Shuffle ==
    /\ pc = "new"
    /\ panic = "none"
    /\ deck' \in ShuffleOutcomes(deck)
    /\ pc' = "shuffle"
    /\ UNCHANGED <<discard, players, round, result, chosen, line, panic, dealt, steps>>
    /\ UNCHANGED hvars

\* Deck::pop
pop(cards) ==
    IF cards = <<>> THEN [card |-> None, cards |-> cards]
    ELSE [card |-> Some(cards[Len(cards)]), cards |-> SubSeq(cards, 1, Len(cards) - 1)]

\* pop_deck that copies the discard pile into the deck instead of swapping.
pop_deck_copy(d, dis, shuffled) ==
    LET p == pop(d) IN
    IF p.card # None THEN [card |-> p.card, deck |-> p.cards, discard |-> dis]
    ELSE LET q == pop(shuffled) IN
         [card |-> q.card, deck |-> q.cards, discard |-> dis]

\* pop_deck that refills the deck from the discard pile as soon as the pop
\* has emptied it.
pop_deck_refill(d, dis, shuffled) ==
    LET p == pop(d) IN
    IF p.card # None /\ p.cards = <<>>
    THEN [card |-> p.card, deck |-> dis, discard |-> <<>>]
    ELSE IF p.card # None
    THEN [card |-> p.card, deck |-> p.cards, discard |-> dis]
    ELSE LET q == pop(shuffled) IN
         [card |-> q.card, deck |-> q.cards, discard |-> d]

\* Game::pop_deck; `shuffled` is the outcome of the shuffle after the swap.
pop_deck(d, dis, shuffled) ==
    LET p == pop(d) IN
    IF p.card # None THEN [card |-> p.card, deck |-> p.cards, discard |-> dis]
    ELSE LET q == pop(shuffled) IN
         [card |-> q.card, deck |-> q.cards, discard |-> d]

\* The giver computed after the increment of the round counter.
giver_of_next(r, n) == (r + 1) % n

\* let giver = self.round % self.players.len()
giver_of(r, n) == r % n

\* The colour test reading the suit of every card, Special cards included.
card_is_red_by_suit(card) == is_red(card.suit)

\* let is_red = ...
card_is_red(card) == IF card.kind = "Regular" THEN is_red(card.suit) ELSE FALSE

\* The red branch ignoring what the strategy returned: the last accepting
\* hand receives.
RouteRedLast(hands, card, j) ==
    LET acc == [i \in 1..Len(hands) |-> can_accept(hands[i], card)]
        yes == {i \in 1..Len(hands) : acc[i] = "true"}
        n == Cardinality(yes)
        one == CHOOSE i \in yes : \A k \in yes : k <= i
    IN  IF \E i \in 1..Len(hands) : acc[i] = "panic"
        THEN [panic |-> "can_accept() on winning hand", receiver |-> None,
              chosen |-> None]
        ELSE IF n = 0 THEN [panic |-> "none", receiver |-> None, chosen |-> None]
        ELSE IF n = 1
        THEN [panic |-> "none", receiver |-> Some(one - 1), chosen |-> None]
        ELSE [panic |-> "none", receiver |-> Some(one - 1), chosen |-> Some(j)]

\* The red branch asking the strategy whenever at least one hand accepts.
RouteRedAlwaysAsk(hands, card, j) ==
    LET acc == [i \in 1..Len(hands) |-> can_accept(hands[i], card)]
        yes == {i \in 1..Len(hands) : acc[i] = "true"}
        n == Cardinality(yes)
        one == CHOOSE i \in yes : \A k \in yes : k <= i
    IN  IF \E i \in 1..Len(hands) : acc[i] = "panic"
        THEN [panic |-> "can_accept() on winning hand", receiver |-> None,
              chosen |-> None]
        ELSE IF n = 0 THEN [panic |-> "none", receiver |-> None, chosen |-> None]
        ELSE IF n = 1
        THEN [panic |-> "none", receiver |-> Some(one - 1), chosen |-> Some(one - 1)]
        ELSE [panic |-> "none", receiver |-> Some(j), chosen |-> Some(j)]

\* The red branch of step: counts the accepting hands, then routes.
\* `j` is what Strategy::choose returns when it is called.
RouteRed(hands, card, j) ==
    LET acc == [i \in 1..Len(hands) |-> can_accept(hands[i], card)]
        yes == {i \in 1..Len(hands) : acc[i] = "true"}
        n == Cardinality(yes)
        one == CHOOSE i \in yes : \A k \in yes : k <= i
    IN  IF \E i \in 1..Len(hands) : acc[i] = "panic"
        THEN [panic |-> "can_accept() on winning hand", receiver |-> None,
              chosen |-> None]
        ELSE IF n = 0 THEN [panic |-> "none", receiver |-> None, chosen |-> None]
        ELSE IF n = 1
        THEN [panic |-> "none", receiver |-> Some(one - 1), chosen |-> None]
        ELSE IF ~(j < Len(hands))
        THEN [panic |-> "assert j < players.len()", receiver |-> None,
              chosen |-> Some(j)]
        ELSE IF can_accept(hands[j + 1], card) # "true"
        THEN [panic |-> "assert can_accept(card)", receiver |-> None,
              chosen |-> Some(j)]
        ELSE [panic |-> "none", receiver |-> Some(j), chosen |-> Some(j)]

\* The black branch falling back to another accepting hand when the giver
\* cannot accept.
RouteBlackAny(hands, card, giver) ==
    LET yes == {i \in 1..Len(hands) : can_accept(hands[i], card) = "true"} IN
    IF \E i \in 1..Len(hands) : can_accept(hands[i], card) = "panic"
    THEN [panic |-> "can_accept() on winning hand", receiver |-> None,
          chosen |-> None]
    ELSE IF giver + 1 \in yes
    THEN [panic |-> "none", receiver |-> Some(giver), chosen |-> None]
    ELSE IF yes # {}
    THEN [panic |-> "none", receiver |-> Some((CHOOSE i \in yes : TRUE) - 1),
          chosen |-> None]
    ELSE [panic |-> "none", receiver |-> None, chosen |-> None]

\* The other branch of step: only the giver is asked.
RouteBlack(hands, card, giver) ==
    LET a == can_accept(hands[giver + 1], card) IN
    IF a = "panic"
    THEN [panic |-> "can_accept() on winning hand", receiver |-> None,
          chosen |-> None]
    ELSE IF a = "true"
    THEN [panic |-> "none", receiver |-> Some(giver), chosen |-> None]
    ELSE [panic |-> "none", receiver |-> None, chosen |-> None]

Route(hands, card, giver, j) ==
    IF card_is_red(card) THEN RouteRed(hands, card, j)
    ELSE RouteBlack(hands, card, giver)

\* The match on the receiver without the arm for Special cards: the card is
\* accepted into the hand, which then evaluates to Win(Special).
ResolveNoSpecialArm(hands, dis, card, receiver) ==
    IF receiver = None
    THEN [panic |-> "none", players |-> hands, discard |-> Append(dis, card),
          win |-> None]
    ELSE LET i == receiver[1] + 1
             a == accept(hands[i], card)
             got == a.cards
         IN  IF a.panic
             THEN [panic |-> "assert can_accept(card) in accept", players |-> hands,
                   discard |-> dis, win |-> None]
             ELSE LET hs == hand_sum(got) IN
                  IF IsWin(hs)
                  THEN LET t == take(dis, got) IN
                       [panic |-> "none", players |-> [hands EXCEPT ![i] = t.hand],
                        discard |-> t.deck, win |-> Some(hs[2])]
                  ELSE [panic |-> "none", players |-> [hands EXCEPT ![i] = got],
                        discard |-> dis, win |-> None]

\* The match on the receiver dropping a card that nobody receives instead
\* of discarding it.
ResolveDropCard(hands, dis, card, receiver) ==
    IF receiver = None
    THEN [panic |-> "none", players |-> hands, discard |-> dis, win |-> None]
    ELSE IF card.kind = "Special"
    THEN [panic |-> "none", players |-> hands, discard |-> Append(dis, card),
          win |-> Some("Special")]
    ELSE LET i == receiver[1] + 1
             a == accept(hands[i], card)
             got == a.cards
         IN  IF a.panic
             THEN [panic |-> "assert can_accept(card) in accept", players |-> hands,
                   discard |-> dis, win |-> None]
             ELSE LET hs == hand_sum(got) IN
                  IF IsWin(hs)
                  THEN LET t == take(dis, got) IN
                       [panic |-> "none", players |-> [hands EXCEPT ![i] = t.hand],
                        discard |-> t.deck, win |-> Some(hs[2])]
                  ELSE [panic |-> "none", players |-> [hands EXCEPT ![i] = got],
                        discard |-> dis, win |-> None]

\* The match on the receiver keeping a Special card in the receiver's hand
\* instead of pushing it onto the discard pile.
ResolveKeepSpecial(hands, dis, card, receiver) ==
    IF receiver = None
    THEN [panic |-> "none", players |-> hands, discard |-> Append(dis, card),
          win |-> None]
    ELSE IF card.kind = "Special"
    THEN [panic |-> "none",
          players |-> [hands EXCEPT ![receiver[1] + 1] = Append(@, card)],
          discard |-> dis, win |-> Some("Special")]
    ELSE LET i == receiver[1] + 1
             a == accept(hands[i], card)
             got == a.cards
         IN  IF a.panic
             THEN [panic |-> "assert can_accept(card) in accept", players |-> hands,
                   discard |-> dis, win |-> None]
             ELSE LET hs == hand_sum(got) IN
                  IF IsWin(hs)
                  THEN LET t == take(dis, got) IN
                       [panic |-> "none", players |-> [hands EXCEPT ![i] = t.hand],
                        discard |-> t.deck, win |-> Some(hs[2])]
                  ELSE [panic |-> "none", players |-> [hands EXCEPT ![i] = got],
                        discard |-> dis, win |-> None]

\* The match on the receiver in step: the hands, the discard pile and the win.
Resolve(hands, dis, card, receiver) ==
    IF receiver = None
    THEN [panic |-> "none", players |-> hands, discard |-> Append(dis, card),
          win |-> None]
    ELSE IF card.kind = "Special"
    THEN [panic |-> "none", players |-> hands, discard |-> Append(dis, card),
          win |-> Some("Special")]
    ELSE LET i == receiver[1] + 1
             a == accept(hands[i], card)
             got == a.cards
         IN  IF a.panic
             THEN [panic |-> "assert can_accept(card) in accept", players |-> hands,
                   discard |-> dis, win |-> None]
             ELSE LET hs == hand_sum(got) IN
                  IF IsWin(hs)
                  THEN LET t == take(dis, got) IN
                       [panic |-> "none", players |-> [hands EXCEPT ![i] = t.hand],
                        discard |-> t.deck, win |-> Some(hs[2])]
                  ELSE [panic |-> "none", players |-> [hands EXCEPT ![i] = got],
                        discard |-> dis, win |-> None]

\* A round counter that is not incremented by a round that records a win.
round_after_no_win(r, res) ==
    IF res = None THEN r ELSE IF res[1].win # None THEN r ELSE r + 1

\* A round counter incremented before the draw, whatever step returns.
round_after_always(r, res) == r + 1

\* The round counter after a call of step that returned res: the early
\* return on None leaves it, self.round += 1 precedes every other return.
round_after(r, res) == IF res = None THEN r ELSE r + 1

\* When step calls Strategy::choose: a red card that two or more hands accept.
ChooseCalled(hands, card) ==
    /\ card_is_red(card)
    /\ \A i \in 1..Len(hands) : can_accept(hands[i], card) # "panic"
    /\ Cardinality({i \in 1..Len(hands) : can_accept(hands[i], card) = "true"}) >= 2

\* A counter of type usize after an increment to n. Only round modulo the
\* number of players is ever read, so a run of any length is followed with
\* the counter kept modulo `cycle`, a common multiple of the possible
\* numbers of players; cycle = 0 keeps the counter itself.
Counter(n, cycle) == IF cycle = 0 THEN n ELSE n % cycle

\* Game::step. main describes every result before it calls step again; a
\* caller may call step again after step has returned None. What pop_deck,
\* the routing and the match on the receiver return is bound once each.
StepCall(cycle) ==
    /\ pc \in {"shuffle", "describe"} \/ (pc = "step" /\ result = None)
    /\ panic = "none"
    /\ UNCHANGED hvars
    /\ \E shuffled \in (IF deck = <<>> THEN ShuffleOutcomes(discard) ELSE {<<>>}) :
         \E p \in {pop_deck(deck, discard, shuffled)} :
         IF p.card = None
         THEN /\ deck' = p.deck
              /\ discard' = p.discard
              /\ result' = None
              /\ chosen' = None
              /\ round' = round_after(round, None)
              /\ pc' = "step"
              /\ UNCHANGED <<players, line, panic, dealt, steps>>
         ELSE IF Len(players) = 0
         THEN /\ deck' = p.deck
              /\ discard' = p.discard
              /\ panic' = "remainder with a divisor of zero"
              /\ pc' = "step"
              /\ UNCHANGED <<players, round, result, chosen, line, dealt, steps>>
         ELSE \E card \in {p.card[1]}, giver \in {giver_of(round, Len(players))} :
                \E j \in (IF ChooseCalled(players, card)
                          THEN choose(players, card) ELSE {0}) :
                  \E r \in {Route(players, card, giver, j)} :
                    \E o \in {Resolve(players, p.discard, card, r.receiver)} :
                    \E res \in {Some([giver |-> giver, receiver |-> r.receiver,
                                      card |-> card, win |-> o.win])} :
                        /\ deck' = p.deck
                        /\ chosen' = r.chosen
                        /\ pc' = "step"
                        /\ IF r.panic # "none"
                           THEN /\ panic' = r.panic
                                /\ UNCHANGED <<discard, players, round, result, steps>>
                           ELSE IF o.panic # "none"
                           THEN /\ panic' = o.panic
                                /\ UNCHANGED <<discard, players, round, result, steps>>
                           ELSE /\ discard' = o.discard
                                /\ players' = o.players
                                /\ round' = Counter(round_after(round, res), cycle)
                                /\ steps' = Counter(steps + 1, cycle)
                                /\ result' = res
                                /\ panic' = "none"
                        /\ UNCHANGED <<line, dealt>>

\* Game::step for the first MaxRound rounds.
Step == round < MaxRound /\ StepCall(0)

\* RoundResult::describe: the parts of the formatted line, None for a panic
\* in no_win.
describe(res, hands) ==
    IF res.receiver # None /\ res.win = None
    THEN LET s == no_win(hand_sum(hands[res.receiver[1] + 1])) IN
         IF s.panic THEN None
         ELSE Some(<<res.giver, res.card, "to", res.receiver[1], "=>", ToString(s.sum)>>)
    ELSE IF res.receiver # None
    THEN Some(<<res.giver, res.card, "to", res.receiver[1], "=>", res.win[1]>>)
    ELSE Some(<<res.giver, res.card, "to nobody">>)

\* main: println!("{}", result.describe(&g)) for the result step returned.
Describe ==
    /\ pc = "step"
    /\ panic = "none"
    /\ result # None
    /\ LET d == describe(result[1], players) IN
       IF d = None
       THEN /\ panic' = "no_win() called on a Win"
            /\ UNCHANGED line
       ELSE /\ line' = d
            /\ UNCHANGED panic
    /\ pc' = "describe"
    /\ UNCHANGED <<deck, discard, players, round, result, chosen, dealt, steps>>
    /\ UNCHANGED hvars

Next == Shuffle \/ Step \/ Describe

Spec == Init /\ [][Next]_vars

SpecG == InitG /\ [][Next]_vars

\* ------------------------------------------------------- runs of any length
\* The least common multiple of the numbers of players 1..MaxPlayers.
RoundCycle ==
    CHOOSE m \in 1..60 :
        /\ \A n \in 1..MaxPlayers : m % n = 0
        /\ \A k \in 1..(m - 1) : \E n \in 1..MaxPlayers : k % n # 0

\* main: Game::new(players, 0).
InitL ==
    /\ NoHand
    /\ \E nplayers \in 1..MaxPlayers : GameNew(nplayers, DeckNew(Dealt, 0))

\* Game::step, called any number of times.
StepL == StepCall(RoundCycle)

NextL == Shuffle \/ StepL \/ Describe

\* main's loop calls step and describe one after the other and waits for
\* nothing: the run goes on as long as a call is possible.
SpecL == InitL /\ [][NextL]_vars /\ WF_vars(NextL)

\* ------------------------------------------------- a hand outside of a game
\* The cards a hand is constructed from and offered: two aces, low and high
\* ordinary cards of both colours, one Special card and one Joker.
HandPool ==
    {CardNew("Hearts", 1), CardNew("Diamonds", 1), CardNew("Hearts", 2),
     CardNew("Hearts", 3), CardNew("Clubs", 5), CardNew("Hearts", 5),
     CardNew("Clubs", 13), CardNew("Spades", 11), Joker(0)}

\* The cards can_accept is asked about: those of the pool and a six.
Offered == HandPool \cup {CardNew("Clubs", 6)}

\* Every Vec of at most n distinct cards of the pool.
RECURSIVE HandsUpTo(_)
HandsUpTo(n) ==
    IF n = 0 THEN {<<>>}
    ELSE LET shorter == HandsUpTo(n - 1) IN
         shorter \cup UNION {{Append(h, c) : c \in HandPool \ Range(h)} :
                                h \in {g \in shorter : Len(g) = n - 1}}

\* Hand { cards: ... } constructed directly, no method called on it yet.
InitH ==
    /\ GameNew(1, DeckNew(Dealt, 0))
    /\ h_cards \in HandsUpTo(MaxHand)
    /\ h_ret = None

\* hand.hand_sum()
HandSumCall ==
    /\ h_ret' = <<"hand_sum", None, hand_sum(h_cards)>>
    /\ UNCHANGED h_cards
    /\ UNCHANGED gvars

\* hand.can_accept(card), for a card the hand does not hold
CanAcceptCall ==
    /\ \E c \in Offered \ Range(h_cards) :
          h_ret' = <<"can_accept", Some(c), can_accept(h_cards, c)>>
    /\ UNCHANGED h_cards
    /\ UNCHANGED gvars

\* hand.accept(card), for a card the hand does not hold
AcceptCall ==
    /\ Len(h_cards) < MaxHand
    /\ \E c \in HandPool \ Range(h_cards) :
          LET a == accept(h_cards, c) IN
          /\ h_cards' = a.cards
          /\ h_ret' = <<"accept", Some(c), IF a.panic THEN "panic" ELSE "ok">>
    /\ UNCHANGED gvars

NextH == HandSumCall \/ CanAcceptCall \/ AcceptCall

SpecH == InitH /\ [][NextH]_vars

\* ================================================================ claims
RECURSIVE Flatten(_)
Flatten(hands) ==
    IF hands = <<>> THEN <<>> ELSE hands[1] \o Flatten(Tail(hands))

\* Every card of the game, container by container.
AllCards == deck \o discard \o Flatten(players)

Count(cards, c) == Cardinality({i \in 1..Len(cards) : cards[i] = c})

RECURSIVE RankSum(_)
RankSum(cards) ==
    IF cards = <<>> THEN 0 ELSE cards[1].num + RankSum(Tail(cards))

HasAce(cards) == \E k \in 1..Len(cards) : cards[k].num = 1

\* The transition is a call of step that returned a result.
StepReturned == pc' = "step" /\ panic' = "none" /\ result' # None

\* The transition is a call of step that reported exhaustion.
StepExhausted == pc' = "step" /\ panic' = "none" /\ result' = None

\* The discard pile a call of step starts resolving with: empty after the
\* swap of pop_deck.
DiscardAfterDraw == IF deck = <<>> THEN <<>> ELSE discard

\* C1: card conservation. While the program runs, deck, discard pile and
\* hands together hold every card Game::new dealt exactly once and no other.
C1_CardConservation ==
    panic = "none" =>
        /\ Len(AllCards) = Len(dealt)
        /\ \A c \in Range(dealt) : Count(AllCards, c) = 1

\* C1 witness: the deck has been recycled (more results than cards dealt) and
\* the last round drained a winning hand into the discard pile.
C1_Witness ==
    /\ panic = "none"
    /\ steps > Len(dealt)
    /\ result # None
    /\ result[1].win = Some("TwentyFive")

\* C2: no fatal check ever fires.
C2_NoPanic == panic = "none"

\* C2 witness: the strategy was asked, its choice passed both assertions, and
\* describe called no_win on the receiver's hand.
C2_Witness ==
    /\ panic = "none"
    /\ pc = "describe"
    /\ chosen # None
    /\ result[1].receiver = chosen
    /\ result[1].win = None

\* C3: between calls every hand is a non-winning hand of at most 4 ordinary
\* cards, with rank sum at most 24 and not 12 with an ace.
C3_HandsNoWin ==
    panic = "none" =>
        \A i \in 1..Len(players) :
            /\ \A k \in 1..Len(players[i]) : players[i][k].kind = "Regular"
            /\ Len(players[i]) <= 4
            /\ RankSum(players[i]) <= 24
            /\ ~(RankSum(players[i]) = 12 /\ HasAce(players[i]))
            /\ hand_sum(players[i]) = NoWin(RankSum(players[i]))

\* C3 witness: a hand of 4 cards received a fifth, won by FiveCards and is
\* empty when the step has returned.
C3_Witness ==
    /\ panic = "none"
    /\ result # None
    /\ result[1].win = Some("FiveCards")
    /\ players[result[1].receiver[1] + 1] = <<>>

\* C4: the round counter starts at 0, equals the number of results returned,
\* never decreases, grows by exactly 1 with every result and stays when step
\* reports exhaustion.
C4_RoundCounter ==
    /\ [](pc = "new" => round = 0)
    /\ [](round = steps)
    /\ [][ /\ round' >= round
           /\ StepReturned => round' = round + 1
           /\ StepExhausted => round' = round ]_vars

\* C4 witness: step reports exhaustion after 3 rounds.
C4_Witness ==
    /\ panic = "none"
    /\ pc = "step"
    /\ result = None
    /\ round = 3

\* C5: the giver of a result is the round counter before the call modulo
\* the number of players.
C5_Giver ==
    [][StepReturned => result'[1].giver = round % Len(players)]_vars

\* C5 witness: with 2 players the giver is back at 0 in the third round,
\* after a round that player 1 received and a round with a win.
C5_Witness ==
    /\ panic = "none"
    /\ Len(players) = 2
    /\ round = 3
    /\ result # None
    /\ result[1].giver = 0
    /\ players[2] # <<>>
    /\ discard # <<>>

\* C6: a red ordinary card has no receiver iff no hand can accept it; a
\* single accepting hand receives it; with two or more the strategy is asked
\* and its choice receives it; a receiver's hand could accept the card when
\* the round started.
C6_RedRouting ==
    [][ (StepReturned /\ card_is_red(result'[1].card)) =>
          LET card == result'[1].card
              rcv == result'[1].receiver
              yes == {i \in 1..Len(players) : can_accept(players[i], card) = "true"}
          IN  /\ rcv = None <=> yes = {}
              /\ Cardinality(yes) = 1 => (chosen' = None /\ rcv # None)
              /\ Cardinality(yes) >= 2 => (chosen' # None /\ rcv = chosen')
              /\ rcv # None => (rcv[1] + 1) \in yes ]_vars

\* C6 witness: a red card went, without the strategy, to a player other
\* than the giver.
C6_Witness ==
    /\ panic = "none"
    /\ result # None
    /\ card_is_red(result[1].card)
    /\ chosen = None
    /\ result[1].receiver # None
    /\ result[1].receiver # Some(result[1].giver)

\* C7: a card that is not red is received by the giver if the giver's hand
\* can accept it, and by nobody otherwise.
C7_BlackRouting ==
    [][ (StepReturned /\ ~card_is_red(result'[1].card)) =>
          LET card == result'[1].card
              giver == result'[1].giver
          IN  result'[1].receiver =
                  IF can_accept(players[giver + 1], card) = "true"
                  THEN Some(giver) ELSE None ]_vars

\* C7 witness: a black ordinary card was discarded although the hand of a
\* player other than the giver could accept it.
C7_Witness ==
    /\ panic = "none"
    /\ result # None
    /\ result[1].card.kind = "Regular"
    /\ ~card_is_red(result[1].card)
    /\ result[1].receiver = None
    /\ \E i \in 1..Len(players) : can_accept(players[i], result[1].card) = "true"

\* C8: a Special card with a receiver gives Win(Special), goes on top of the
\* discard pile and leaves every hand as it was; no hand ever holds a
\* Special card.
C8_Special ==
    /\ [](panic = "none" =>
            \A i \in 1..Len(players) : \A k \in 1..Len(players[i]) :
                players[i][k].kind # "Special")
    /\ [][ (/\ StepReturned
            /\ result'[1].card.kind = "Special"
            /\ result'[1].receiver # None) =>
              /\ result'[1].win = Some("Special")
              /\ discard' = Append(DiscardAfterDraw, result'[1].card)
              /\ players' = players ]_vars

\* C8 witness: a Special card was routed to a player who holds cards.
C8_Witness ==
    /\ panic = "none"
    /\ result # None
    /\ result[1].card.kind = "Special"
    /\ result[1].win = Some("Special")
    /\ result[1].receiver # None
    /\ players[result[1].receiver[1] + 1] # <<>>

\* C9: a card other than a Special with a receiver is appended to the
\* receiver's hand; if the hand then evaluates to a Win, the whole hand is
\* moved onto the discard pile, the hand is empty and the result records
\* that win; otherwise the hand keeps the card, no win is recorded and the
\* discard pile is as it was after the draw. No other hand changes.
C9_AcceptAndWin ==
    [][ (/\ StepReturned
         /\ result'[1].receiver # None
         /\ result'[1].card.kind # "Special") =>
          LET i == result'[1].receiver[1] + 1
              got == Append(players[i], result'[1].card)
              hs == hand_sum(got)
          IN  /\ Len(players') = Len(players)
              /\ \A k \in 1..Len(players) : k # i => players'[k] = players[k]
              /\ IF IsWin(hs)
                 THEN /\ players'[i] = <<>>
                      /\ discard' = DiscardAfterDraw \o got
                      /\ result'[1].win = Some(hs[2])
                 ELSE /\ players'[i] = got
                      /\ discard' = DiscardAfterDraw
                      /\ result'[1].win = None ]_vars

\* C9 witness: a hand of one card received a second that made 12 with an
\* ace, and both cards are on top of the discard pile.
C9_Witness ==
    /\ panic = "none"
    /\ result # None
    /\ result[1].win = Some("TwentyFive")
    /\ players[result[1].receiver[1] + 1] = <<>>
    /\ Len(discard) >= 2
    /\ discard[Len(discard)] = result[1].card
    /\ RankSum(SubSeq(discard, Len(discard) - 1, Len(discard))) = 12

\* C10: a call of step that starts with deck and discard pile both empty
\* reports exhaustion without a panic and leaves the round counter, the
\* hands and both piles as they were; so does every later call.
C10_Exhaustion ==
    [][ (/\ pc # "new"
         /\ panic = "none"
         /\ deck = <<>>
         /\ discard = <<>>
         /\ pc' = "step") =>
          /\ result' = None
          /\ panic' = "none"
          /\ round' = round
          /\ players' = players
          /\ deck' = <<>>
          /\ discard' = <<>> ]_vars

\* C10 witness: step has reported exhaustion after 2 rounds, with every
\* card in a hand.
C10_Witness ==
    /\ panic = "none"
    /\ pc = "step"
    /\ result = None
    /\ steps = 2
    /\ deck = <<>>
    /\ discard = <<>>
    /\ \E i \in 1..Len(players) : players[i] # <<>>

\* C11: recycling. A call of step that starts with an empty deck and a
\* discard pile of d >= 1 cards draws one of them and leaves the other d-1
\* as the deck, and nothing of the old discard pile stays in the discard
\* pile; a call that starts with a non-empty deck pops its last card and
\* swaps nothing.
C11_Recycle ==
    [][ StepReturned =>
          LET card == result'[1].card IN
          IF deck = <<>>
          THEN /\ Len(discard) >= 1
               /\ Len(deck') = Len(discard) - 1
               /\ Range(deck') \cup {card} = Range(discard)
               /\ card \notin Range(deck')
               /\ \A c \in Range(discard') : c = card \/ c \notin Range(discard)
          ELSE /\ card = deck[Len(deck)]
               /\ deck' = SubSeq(deck, 1, Len(deck) - 1)
               /\ Len(discard') >= Len(discard)
               /\ SubSeq(discard', 1, Len(discard)) = discard ]_vars

\* C11 witness: the step after the last card of the deck was drawn has
\* recycled a discard pile of three or more cards.
C11_Witness ==
    /\ panic = "none"
    /\ pc = "step"
    /\ result # None
    /\ steps = Len(dealt) + 1
    /\ Len(deck) >= 2
    /\ result[1].card \notin Range(deck)

\* C12: Strategy::choose is invoked only inside a call of step that drew a
\* red ordinary card which two or more hands can accept: never for a black
\* ordinary card, a Special card or a Joker, never with fewer than two
\* accepting hands, and never by describe. The call returns one index.
C12_ChooseOnlyWhenAmbiguous ==
    [][ /\ (pc' = "step" /\ chosen' # None) =>
              /\ StepReturned
              /\ result'[1].card.kind = "Regular"
              /\ result'[1].card.suit \in {"Hearts", "Diamonds"}
              /\ Cardinality({i \in 1..Len(players) :
                      RankSum(players[i]) + result'[1].card.num <= 25}) >= 2
              /\ chosen'[1] \in 0..(Len(players) - 1)
        /\ pc' # "step" => chosen' = chosen ]_vars

\* C12 witness: the strategy was asked about a red card that one of the
\* three hands could not accept.
C12_Witness ==
    /\ panic = "none"
    /\ pc = "step"
    /\ result # None
    /\ chosen # None
    /\ Len(players) = 3
    /\ \E i \in 1..3 :
         /\ Some(i - 1) # result[1].receiver
         /\ RankSum(players[i]) + result[1].card.num > 25

\* C13: whenever hand_sum is evaluated on a hand holding a Joker, in any
\* position and next to any other cards, it returns Win(Joker); on a hand
\* holding a Special card and no Joker it returns Win(Special).
C13_JokerBeforeSpecial ==
    (h_ret # None /\ h_ret[1] = "hand_sum") =>
        IF \E k \in 1..Len(h_cards) : h_cards[k].kind = "Joker"
        THEN h_ret[3] = Win("Joker")
        ELSE IF \E k \in 1..Len(h_cards) : h_cards[k].kind = "Special"
        THEN h_ret[3] = Win("Special")
        ELSE TRUE

\* C14: hand_sum on a hand of ordinary cards only returns Win(FiveCards)
\* when the hand holds exactly 5 cards, whatever their sum; otherwise
\* Win(TwentyFive) when the ranks sum to 25, or to 12 with an ace held;
\* otherwise NoWin of the sum of the ranks (0 for the empty hand, 12 for a
\* sum of 12 without an ace).
C14_OrdinaryHands ==
    (/\ h_ret # None
     /\ h_ret[1] = "hand_sum"
     /\ \A k \in 1..Len(h_cards) : h_cards[k].kind = "Regular") =>
        LET v == h_ret[3]
            sum == RankSum(h_cards)
        IN  IF Len(h_cards) = 5
            THEN IsWin(v) /\ v[2] = "FiveCards"
            ELSE IF sum = 25 \/ (sum = 12 /\ HasAce(h_cards))
            THEN IsWin(v) /\ v[2] = "TwentyFive"
            ELSE ~IsWin(v) /\ v[2] = sum

\* C14 witness: five ordinary cards that sum to 25 were evaluated as
\* FiveCards.
C14_Witness ==
    /\ h_ret # None
    /\ h_ret[1] = "hand_sum"
    /\ Len(h_cards) = 5
    /\ \A k \in 1..5 : h_cards[k].kind = "Regular"
    /\ RankSum(h_cards) = 25
    /\ h_ret[3] = Win("FiveCards")

\* The hand is in a Win state: it holds a Joker or a Special card, or five
\* cards, or ranks that sum to 25, or to 12 with an ace.
WinState(cards) ==
    \/ \E k \in 1..Len(cards) : cards[k].kind # "Regular"
    \/ Len(cards) = 5
    \/ RankSum(cards) = 25
    \/ (RankSum(cards) = 12 /\ HasAce(cards))

\* C15: can_accept returns true for a Special card and for a Joker whatever
\* the hand holds; for an ordinary card of rank r and a hand that is not in
\* a Win state it returns true exactly when the sum of the hand plus r is
\* at most 25; for an ordinary card and a hand in a Win state it panics.
C15_CanAccept ==
    (h_ret # None /\ h_ret[1] = "can_accept") =>
        LET card == h_ret[2][1]
            v == h_ret[3]
        IN  IF card.kind # "Regular" THEN v = "true"
            ELSE IF WinState(h_cards) THEN v = "panic"
            ELSE IF RankSum(h_cards) + card.num <= 25 THEN v = "true"
            ELSE v = "false"

\* C15 witness: a hand that sums to 20 was asked about a six and refused.
C15_Witness ==
    /\ h_ret # None
    /\ h_ret[1] = "can_accept"
    /\ RankSum(h_cards) = 20
    /\ ~WinState(h_cards)
    /\ h_ret[2][1].num = 6
    /\ h_ret[3] = "false"

\* C17: a call of step that chooses no receiver pushes the drawn card onto
\* the discard pile, records no win and changes no hand, and describe
\* reports the card as given to nobody; no result records a win without a
\* receiver.
C17_NoReceiver ==
    [][ /\ StepReturned =>
              LET r == result'[1] IN
              /\ r.receiver = None =>
                    /\ discard' = Append(DiscardAfterDraw, r.card)
                    /\ r.win = None
                    /\ players' = players
              /\ r.win # None => r.receiver # None
        /\ (pc' = "describe" /\ panic' = "none" /\ result[1].receiver = None) =>
              line' = Some(<<result[1].giver, result[1].card, "to nobody">>) ]_vars

\* C17 witness: a red card that no hand could accept was discarded and
\* described, while a hand held a card.
C17_Witness ==
    /\ panic = "none"
    /\ pc = "describe"
    /\ result[1].receiver = None
    /\ result[1].win = None
    /\ result[1].card.suit \in {"Hearts", "Diamonds"}
    /\ discard # <<>>
    /\ discard[Len(discard)] = result[1].card
    /\ \E i \in 1..Len(players) : players[i] # <<>>
    /\ Len(line[1]) = 3

\* The Special cards and the Jokers Game::new dealt.
WildDealt == {c \in Range(dealt) : c.kind # "Regular"}

\* C18: in a game built by Game::new with at least one player, every
\* Special card and every Joker is in the deck or in the discard pile
\* between two calls and never in a hand, so the two piles are never both
\* empty and no call of step reports exhaustion.
C18_NeverOutOfCards ==
    panic = "none" =>
        /\ \A c \in WildDealt : Count(deck \o discard, c) = 1
        /\ \A i \in 1..Len(players) : \A k \in 1..Len(players[i]) :
              players[i][k].kind = "Regular"
        /\ Cardinality({c \in WildDealt : c.kind = "Special"}) = 2
        /\ ~(deck = <<>> /\ discard = <<>>)
        /\ pc \in {"step", "describe"} => result # None

\* C18 witness: every ordinary card is in a hand, and the two piles hold
\* the two Special cards and nothing else.
C18_Witness ==
    /\ panic = "none"
    /\ pc = "step"
    /\ result # None
    /\ Len(deck) + Len(discard) = 2
    /\ \A c \in Range(deck \o discard) : c.kind = "Special"

\* C19: a call of step that draws a Special card or a Joker gives it to the
\* giver and records a win. For a Special card the win is Win(Special), the
\* card goes to the discard pile and no hand changes; for a Joker the win
\* is Win(Joker) and the giver's hand followed by the Joker is moved to the
\* discard pile, the other hands unchanged.
C19_WildCardWins ==
    [][ (StepReturned /\ result'[1].card.kind # "Regular") =>
          LET r == result'[1]
              g == (round % Len(players)) + 1
          IN  /\ r.receiver = Some(g - 1)
              /\ r.giver = g - 1
              /\ r.card.kind = "Special" =>
                    /\ r.win = Some("Special")
                    /\ players' = players
                    /\ discard' = Append(DiscardAfterDraw, r.card)
              /\ r.card.kind = "Joker" =>
                    /\ r.win = Some("Joker")
                    /\ players' = [players EXCEPT ![g] = <<>>]
                    /\ discard' = DiscardAfterDraw \o players[g] \o <<r.card>> ]_vars

\* C19 witness: the second round drew a Joker for a giver who held the
\* card of the first round (an empty hand accepts every card); that card
\* and the Joker are the discard pile and every hand is empty.
C19_Witness ==
    /\ panic = "none"
    /\ pc = "step"
    /\ result # None
    /\ result[1].card.kind = "Joker"
    /\ result[1].win = Some("Joker")
    /\ \A i \in 1..Len(players) : players[i] = <<>>
    /\ steps = 2
    /\ Len(discard) = 2
    /\ discard[2] = result[1].card
    /\ discard[1].kind = "Regular"

\* The last call of step drew the Special card of suit s and recorded
\* Win(Special).
SpecialWin(s) ==
    /\ pc = "step"
    /\ result # None
    /\ result[1].card = Special(s)
    /\ result[1].win = Some("Special")

\* C20: in a run of any length the deck is recycled from the discard pile
\* again and again and rounds that record a win occur again and again. The
\* deck runs empty again and again, and the call of step that finds it
\* empty returns a card of the discard pile and leaves the rest of that
\* pile as the deck; the deck loses exactly one card in a step that does
\* not recycle it and gains cards only in a step that does; whenever a
\* recycle is due both Special cards are in the discard pile, and each of
\* them is drawn with Win(Special) again and again.
C20_RecycleAndWinForever ==
    /\ []<>(deck = <<>> /\ pc = "describe")
    /\ []<>(pc = "step" /\ result # None /\ result[1].win # None)
    /\ []<>SpecialWin("Spades")
    /\ []<>SpecialWin("Diamonds")
    /\ [][ pc' = "step" =>
              /\ StepReturned
              /\ deck = <<>> =>
                    /\ Range(deck') \cup {result'[1].card} = Range(discard)
                    /\ Len(deck') = Len(discard) - 1
              /\ deck # <<>> => Len(deck') = Len(deck) - 1 ]_vars
    /\ []((pc \in {"shuffle", "describe"} /\ deck = <<>>) =>
            \A s \in {"Spades", "Diamonds"} : Special(s) \in Range(discard))

\* C20 witness: the round counter has completed a cycle, which is longer
\* than the deck, and the round that completed it drew a Special card from
\* a recycled deck while a hand held cards.
C20_Witness ==
    /\ panic = "none"
    /\ pc = "step"
    /\ result # None
    /\ round = 0
    /\ result[1].win = Some("Special")
    /\ \E i \in 1..Len(players) : players[i] # <<>>

====
